---- MODULE Spec2Model ----
(***************************************************************************)
(* Model of colmap::mvs::Image (src/mvs/image.cc): the stored camera       *)
(* (width_, height_, K_, R_, T_, last_row_, bitmap_), its in-place         *)
(* mutators (SetBitmap, SetK, SetLastRow, Rescale, Downsize) and its       *)
(* read-only derivations (GetDepth, GetCDouble, GetPinvPDouble,            *)
(* Rotate90Multi and the four remappers).                                  *)
(*                                                                         *)
(* Numbers.  A double or float value is an extended rational [n, d]:       *)
(* d > 0 is the finite value n/d in lowest terms, d = 0 is a non-finite    *)
(* IEEE value (n = 1: +Inf, n = -1: -Inf, n = 0: NaN).  The arithmetic     *)
(* follows IEEE 754 for the non-finite cases (x/0, 0/0, Inf*0, ...).       *)
(* Finite arithmetic is exact; the single-precision casts round integers   *)
(* to a 24-bit significand.  Signed zeros are not distinguished.           *)
(***************************************************************************)
EXTENDS Integers, Sequences, FiniteSets, TLC

VARIABLES width_, height_, K_, R_, T_, last_row_, bitmap_,
          aborted, steps, call, prev, out

vars == <<width_, height_, K_, R_, T_, last_row_, bitmap_,
          aborted, steps, call, prev, out>>

----------------------------------------------------------------------------
(* Extended rational arithmetic (IEEE double / float values).              *)

RECURSIVE Gcd(_, _)
Gcd(a, b) == IF b = 0 THEN a ELSE Gcd(b, a % b)

Abs(i) == IF i < 0 THEN -i ELSE i

Sgn(i) == IF i > 0 THEN 1 ELSE IF i < 0 THEN -1 ELSE 0

\* The finite value n/d (d # 0) in lowest terms with a positive denominator.
Mk(n, d) ==
    LET g == Gcd(Abs(n), Abs(d))
    IN  [n |-> Sgn(d) * (n \div g), d |-> Abs(d) \div g]

D(i) == [n |-> i, d |-> 1]

NaN == [n |-> 0, d |-> 0]

PosInf == [n |-> 1, d |-> 0]

NegInf == [n |-> -1, d |-> 0]

IsFinite(x) == x.d > 0

IsNaN(x) == x.d = 0 /\ x.n = 0

RatNeg(a) == [n |-> -a.n, d |-> a.d]

RatAbs(a) == [n |-> Abs(a.n), d |-> a.d]

RatMul(a, b) ==
    IF a.d = 0 \/ b.d = 0
    THEN [n |-> Sgn(a.n) * Sgn(b.n), d |-> 0]
    ELSE Mk(a.n * b.n, a.d * b.d)

RatAdd(a, b) ==
    IF a.d = 0 /\ b.d = 0 THEN (IF a.n = b.n THEN a ELSE NaN)
    ELSE IF a.d = 0 THEN a
    ELSE IF b.d = 0 THEN b
    ELSE Mk(a.n * b.d + b.n * a.d, a.d * b.d)

RatSub(a, b) == RatAdd(a, RatNeg(b))

\* 1/b: 1/0 is +Inf, 1/Inf is 0, 1/NaN is NaN.
RatInv(b) ==
    IF b.d = 0 THEN (IF b.n = 0 THEN NaN ELSE D(0))
    ELSE IF b.n = 0 THEN PosInf
    ELSE Mk(b.d, b.n)

\* a/b as IEEE defines it: x/0 = +-Inf, 0/0 = NaN, Inf/Inf = NaN, x/Inf = 0.
RatDiv(a, b) == RatMul(a, RatInv(b))

\* a < b; every comparison with NaN is false.
RatLess(a, b) ==
    IF IsNaN(a) \/ IsNaN(b) THEN FALSE
    ELSE IF a.d = 0 THEN a.n < 0 /\ b # NegInf
    ELSE IF b.d = 0 THEN b.n > 0
    ELSE a.n * b.d < b.n * a.d

\* Significand width of an IEEE single-precision value.
FloatMantissaBits == 24

RECURSIVE Pow2(_)
Pow2(e) == IF e = 0 THEN 1 ELSE 2 * Pow2(e - 1)

\* Spacing of the single-precision values around the integer m >= 0.
RECURSIVE FloatUlp(_, _)
FloatUlp(m, q) ==
    IF m \div q < Pow2(FloatMantissaBits) THEN q ELSE FloatUlp(m, 2 * q)

\* The integer m >= 0 rounded to single precision (nearest, ties to even).
RoundToFloatInt(m) ==
    LET q  == FloatUlp(m, 1)
        lo == (m \div q) * q
        r  == m - lo
    IN  IF 2 * r < q THEN lo
        ELSE IF 2 * r > q THEN lo + q
        ELSE IF (m \div q) % 2 = 0 THEN lo ELSE lo + q

\* (float) x.  Integers round to a 24-bit significand; a non-finite value is
\* kept.  A non-integer is kept as it is: the values drawn here are either
\* exactly representable or differ from their cast by less than 2^-24
\* relative, which the model does not represent.
ToFloat(x) ==
    IF x.d = 1 THEN D(Sgn(x.n) * RoundToFloatInt(Abs(x.n))) ELSE x

\* DoubleArrToFloatArr: each element cast to float.
DoubleArrToFloatArr(double_arr) ==
    [i \in 1..Len(double_arr) |-> ToFloat(double_arr[i])]

\* static_cast<size_t>(std::round(x)) for a finite x >= 0: half away from
\* zero.  (A negative or non-finite x makes the conversion undefined; no
\* action of the model passes one.)
RoundToSize(x) ==
    CASE x.d > 0 /\ x.n >= 0 -> (2 * x.n + x.d) \div (2 * x.d)

\* std::min(a, b): b < a ? b : a.
FloatMin(a, b) == IF RatLess(b, a) THEN b ELSE a

----------------------------------------------------------------------------
(* Row-major matrices are sequences; entry (i, j) of an r x c matrix,      *)
(* 0-based as in the source, is element i*c + j + 1.                       *)

RECURSIVE RatSum(_, _)
RatSum(f, m) == IF m = 0 THEN D(0) ELSE RatAdd(RatSum(f, m - 1), f[m])

\* A (n x m) times B (m x p).
MatMul(A, B, n, m, p) ==
    [idx \in 1..(n * p) |->
        LET i == (idx - 1) \div p
            j == (idx - 1) % p
        IN  RatSum([k \in 1..m |-> RatMul(A[i * m + k], B[(k - 1) * p + j + 1])], m)]

Transpose3(A) == [idx \in 1..9 |-> A[((idx - 1) % 3) * 3 + ((idx - 1) \div 3) + 1]]

MatScale(A, s) == [idx \in 1..Len(A) |-> RatMul(A[idx], s)]

MatNeg(A) == [idx \in 1..Len(A) |-> RatNeg(A[idx])]

\* Eigen's maxCoeff(): the largest coefficient, signs kept (a visitor that
\* starts from the first coefficient and replaces it by any greater one).
RECURSIVE MaxCoeffFrom(_, _, _)
MaxCoeffFrom(A, k, res) ==
    IF k > Len(A) THEN res
    ELSE MaxCoeffFrom(A, k + 1, IF RatLess(res, A[k]) THEN A[k] ELSE res)

MaxCoeff(A) == MaxCoeffFrom(A, 2, A[1])

\* The largest absolute value of the coefficients.
MaxAbsCoeff(A) == MaxCoeff([idx \in 1..Len(A) |-> RatAbs(A[idx])])

Det2(a, b, c, d) == RatSub(RatMul(a, d), RatMul(b, c))

\* Determinant of the 3 x 3 matrix left of the 4 x 4 matrix A by deleting
\* row i and column j (0-based).
Minor4(A, i, j) ==
    LET rs == IF i = 0 THEN <<1, 2, 3>> ELSE IF i = 1 THEN <<0, 2, 3>>
              ELSE IF i = 2 THEN <<0, 1, 3>> ELSE <<0, 1, 2>>
        cs == IF j = 0 THEN <<1, 2, 3>> ELSE IF j = 1 THEN <<0, 2, 3>>
              ELSE IF j = 2 THEN <<0, 1, 3>> ELSE <<0, 1, 2>>
        e(r, c) == A[rs[r] * 4 + cs[c] + 1]
    IN  RatAdd(RatSub(RatMul(e(1, 1), Det2(e(2, 2), e(2, 3), e(3, 2), e(3, 3))),
                      RatMul(e(1, 2), Det2(e(2, 1), e(2, 3), e(3, 1), e(3, 3)))),
               RatMul(e(1, 3), Det2(e(2, 1), e(2, 2), e(3, 1), e(3, 2))))

Cofactor4(A, i, j) ==
    IF (i + j) % 2 = 0 THEN Minor4(A, i, j) ELSE RatNeg(Minor4(A, i, j))

Det4(A) ==
    RatSum([k \in 1..4 |-> RatMul(A[k], Cofactor4(A, 0, k - 1))], 4)

\* Eigen's inverse() of a fixed-size 4 x 4 matrix: the cofactor formula,
\* entry (i, j) = cofactor (j, i) / determinant.  A singular matrix divides
\* by zero and gives non-finite entries.
Inverse4(A) ==
    LET det == Det4(A)
    IN  [idx \in 1..16 |->
            RatDiv(Cofactor4(A, (idx - 1) % 4, (idx - 1) \div 4), det)]

----------------------------------------------------------------------------
(* The helper functions of image.cc.                                       *)

Ten == 10

IntsToDoubles(s) == [i \in 1..Len(s) |-> D(s[i])]

\* The 3 x 4 matrix [R | T].
StackRT(R, T) ==
    [idx \in 1..12 |->
        LET i == (idx - 1) \div 4
            j == (idx - 1) % 4
        IN  IF j < 3 THEN R[i * 3 + j + 1] ELSE T[i + 1]]

\* K * [R | T] with last_row stacked below it: the unscaled 4 x 4 matrix.
Stack4by4(K, R, T, last_row) ==
    [idx \in 1..16 |->
        IF idx <= 12 THEN MatMul(K, StackRT(R, T), 3, 3, 4)[idx]
        ELSE last_row[idx - 12]]

\* The matrix the source scales by 10 / maxCoeff.
StabilityScale(A) == MatScale(A, RatDiv(D(Ten), MaxCoeff(A)))

Compute4by4ProjectionMatrix(K, R, T, last_row) ==
    LET P_4by4     == StabilityScale(Stack4by4(K, R, T, last_row))
        inv_P_4by4 == StabilityScale(Inverse4(P_4by4))
    IN  [P |-> P_4by4, inv_P |-> inv_P_4by4]

ComputeProjectionCenter(R, T) == MatNeg(MatMul(Transpose3(R), T, 3, 3, 1))

\* GetDepth with the quotient turned over: result[3] / result[2].
GetDepthInverted(x, y, z) ==
    LET P_4by4 == Stack4by4(K_, R_, T_, last_row_)
        result == MatMul(P_4by4, <<x, y, z, D(1)>>, 4, 4, 1)
        depth  == RatDiv(result[4], result[3])
    IN  ToFloat(depth)

GetDepth(x, y, z) ==
    LET P_4by4 == Stack4by4(K_, R_, T_, last_row_)
        result == MatMul(P_4by4, <<x, y, z, D(1)>>, 4, 4, 1)
        depth  == RatDiv(result[3], result[4])
    IN  ToFloat(depth)

GetCDouble == ComputeProjectionCenter(R_, T_)

GetPinvPDouble == Compute4by4ProjectionMatrix(K_, R_, T_, last_row_)

----------------------------------------------------------------------------
(* The rotation remappers.  Each returns the six output arrays.            *)

rot == IntsToDoubles(<<0, 1, 0, -1, 0, 0, 0, 0, 1>>)

\* The part the three rotated cases share: the extrinsics premultiplied by
\* rot_n, P and inv_P and the projection centre rebuilt from the new
\* parameters, everything cast to float.
\* Remapped with the translation left as stored instead of rotated.
RemappedStaleT(K_new, rot_n) ==
    LET R_new == MatMul(rot_n, R_, 3, 3, 3)
        T_new == T_
        PinvP == Compute4by4ProjectionMatrix(K_new, R_new, T_new, last_row_)
        C_new == ComputeProjectionCenter(R_new, T_new)
    IN  [written |-> TRUE,
         K     |-> DoubleArrToFloatArr(K_new),
         R     |-> DoubleArrToFloatArr(R_new),
         T     |-> DoubleArrToFloatArr(T_new),
         P     |-> DoubleArrToFloatArr(PinvP.P),
         inv_P |-> DoubleArrToFloatArr(PinvP.inv_P),
         C     |-> DoubleArrToFloatArr(C_new)]

Remapped(K_new, rot_n) ==
    LET R_new == MatMul(rot_n, R_, 3, 3, 3)
        T_new == MatMul(rot_n, T_, 3, 3, 1)
        PinvP == Compute4by4ProjectionMatrix(K_new, R_new, T_new, last_row_)
        C_new == ComputeProjectionCenter(R_new, T_new)
    IN  [written |-> TRUE,
         K     |-> DoubleArrToFloatArr(K_new),
         R     |-> DoubleArrToFloatArr(R_new),
         T     |-> DoubleArrToFloatArr(T_new),
         P     |-> DoubleArrToFloatArr(PinvP.P),
         inv_P |-> DoubleArrToFloatArr(PinvP.inv_P),
         C     |-> DoubleArrToFloatArr(C_new)]

Original ==
    LET PinvP == Compute4by4ProjectionMatrix(K_, R_, T_, last_row_)
    IN  [written |-> TRUE,
         K     |-> DoubleArrToFloatArr(K_),
         R     |-> DoubleArrToFloatArr(R_),
         T     |-> DoubleArrToFloatArr(T_),
         P     |-> DoubleArrToFloatArr(PinvP.P),
         inv_P |-> DoubleArrToFloatArr(PinvP.inv_P),
         C     |-> DoubleArrToFloatArr(ComputeProjectionCenter(R_, T_))]

\* K_new[9] = {0.} with entries 0, 2, 4, 5 and 8 assigned.
KNew(fx, cx, fy, cy) ==
    <<fx, D(0), cx, D(0), fy, cy, D(0), D(0), D(1)>>

\* Rotate90 with the new principal point bounded by the height.
Rotate90ByHeight ==
    LET fx_old == K_[1]
        cx_old == K_[3]
        fy_old == K_[5]
        cy_old == K_[6]
    IN  Remapped(KNew(fy_old, cy_old, fx_old,
                      RatSub(RatAdd(RatNeg(cx_old), D(height_)), D(1))),
                 rot)

Rotate90 ==
    LET fx_old == K_[1]
        cx_old == K_[3]
        fy_old == K_[5]
        cy_old == K_[6]
    IN  Remapped(KNew(fy_old, cy_old, fx_old,
                      RatSub(RatAdd(RatNeg(cx_old), D(width_)), D(1))),
                 rot)

Rotate180 ==
    LET fx_old == K_[1]
        cx_old == K_[3]
        fy_old == K_[5]
        cy_old == K_[6]
    IN  Remapped(KNew(fx_old, RatSub(RatAdd(RatNeg(cx_old), D(width_)), D(1)),
                      fy_old, RatSub(RatAdd(RatNeg(cy_old), D(height_)), D(1))),
                 MatMul(rot, rot, 3, 3, 3))

Rotate270 ==
    LET fx_old == K_[1]
        cx_old == K_[3]
        fy_old == K_[5]
        cy_old == K_[6]
    IN  Remapped(KNew(fy_old, RatSub(RatAdd(RatNeg(cy_old), D(height_)), D(1)),
                      fx_old, cx_old),
                 MatMul(MatMul(rot, rot, 3, 3, 3), rot, 3, 3, 3))

\* The C++ remainder a % b for b > 0: truncated, it has the sign of a.
CRem(a, b) == IF a >= 0 THEN a % b ELSE -((-a) % b)

\* The default branch writes none of the six output arrays.
NotWritten == [written |-> FALSE]

Rotate90Multi(cnt) ==
    LET sel == CRem(cnt, 4)
    IN  CASE sel = 0 -> Original
          [] sel = 1 -> Rotate90
          [] sel = 2 -> Rotate180
          [] sel = 3 -> Rotate270
          [] OTHER   -> NotWritten

----------------------------------------------------------------------------
(* The pixel buffer (the Bitmap collaborator): whether pixel data is       *)
(* attached, its dimensions, and how often its Rescale has been called.    *)

EmptyBitmap == [data |-> FALSE, w |-> 0, h |-> 0, rescaled |-> 0]

FilledBitmap(w, h) == [data |-> TRUE, w |-> w, h |-> h, rescaled |-> 0]

\* Bitmap::Rescale(new_width, new_height): the buffer resampled in place to
\* the new dimensions.
BitmapRescale(b, new_width, new_height) ==
    [b EXCEPT !.w = new_width, !.h = new_height, !.rescaled = @ + 1]

----------------------------------------------------------------------------
(* The mutators of Image.                                                  *)

\* bitmap_ is assigned first; a failed CHECK_EQ aborts the process.
SetBitmap(bitmap) ==
    /\ bitmap_' = bitmap
    /\ aborted' = ~(width_ = bitmap.w /\ height_ = bitmap.h)
    /\ UNCHANGED <<width_, height_, K_, R_, T_, last_row_>>

SetK(K) ==
    /\ K_' = K
    /\ UNCHANGED <<width_, height_, R_, T_, last_row_, bitmap_, aborted>>

SetLastRow(last_row) ==
    /\ last_row_' = last_row
    /\ UNCHANGED <<width_, height_, K_, R_, T_, bitmap_, aborted>>

\* Rescale with the buffer resampled to the new dimensions in the wrong order.
RescaleSwappedBuffer(factor_x, factor_y) ==
    LET new_width  == RoundToSize(RatMul(ToFloat(D(width_)), factor_x))
        new_height == RoundToSize(RatMul(ToFloat(D(height_)), factor_y))
        scale_x    == RatDiv(ToFloat(D(new_width)), ToFloat(D(width_)))
        scale_y    == RatDiv(ToFloat(D(new_height)), ToFloat(D(height_)))
    IN  /\ bitmap_' = IF bitmap_.data
                      THEN BitmapRescale(bitmap_, new_height, new_width)
                      ELSE bitmap_
        /\ K_' = [K_ EXCEPT ![1] = RatMul(@, scale_x),
                            ![3] = RatMul(@, scale_x),
                            ![5] = RatMul(@, scale_y),
                            ![6] = RatMul(@, scale_y)]
        /\ width_' = new_width
        /\ height_' = new_height
        /\ UNCHANGED <<R_, T_, last_row_, aborted>>

\* Rescale with the scales computed by integer division (the cast to float
\* left out).
RescaleIntegerDivision(factor_x, factor_y) ==
    LET new_width  == RoundToSize(RatMul(ToFloat(D(width_)), factor_x))
        new_height == RoundToSize(RatMul(ToFloat(D(height_)), factor_y))
        scale_x    == IF width_ = 0 THEN NaN ELSE D(new_width \div width_)
        scale_y    == IF height_ = 0 THEN NaN ELSE D(new_height \div height_)
    IN  /\ bitmap_' = IF bitmap_.data
                      THEN BitmapRescale(bitmap_, new_width, new_height)
                      ELSE bitmap_
        /\ K_' = [K_ EXCEPT ![1] = RatMul(@, scale_x),
                            ![3] = RatMul(@, scale_x),
                            ![5] = RatMul(@, scale_y),
                            ![6] = RatMul(@, scale_y)]
        /\ width_' = new_width
        /\ height_' = new_height
        /\ UNCHANGED <<R_, T_, last_row_, aborted>>

\* Rescale with K scaled by the requested factors instead of the realised ones.
RescaleRequestedFactor(factor_x, factor_y) ==
    LET new_width  == RoundToSize(RatMul(ToFloat(D(width_)), factor_x))
        new_height == RoundToSize(RatMul(ToFloat(D(height_)), factor_y))
    IN  /\ bitmap_' = IF bitmap_.data
                      THEN BitmapRescale(bitmap_, new_width, new_height)
                      ELSE bitmap_
        /\ K_' = [K_ EXCEPT ![1] = RatMul(@, factor_x),
                            ![3] = RatMul(@, factor_x),
                            ![5] = RatMul(@, factor_y),
                            ![6] = RatMul(@, factor_y)]
        /\ width_' = new_width
        /\ height_' = new_height
        /\ UNCHANGED <<R_, T_, last_row_, aborted>>

Rescale(factor_x, factor_y) ==
    LET new_width  == RoundToSize(RatMul(ToFloat(D(width_)), factor_x))
        new_height == RoundToSize(RatMul(ToFloat(D(height_)), factor_y))
        scale_x    == RatDiv(ToFloat(D(new_width)), ToFloat(D(width_)))
        scale_y    == RatDiv(ToFloat(D(new_height)), ToFloat(D(height_)))
    IN  /\ bitmap_' = IF bitmap_.data
                      THEN BitmapRescale(bitmap_, new_width, new_height)
                      ELSE bitmap_
        /\ K_' = [K_ EXCEPT ![1] = RatMul(@, scale_x),
                            ![3] = RatMul(@, scale_x),
                            ![5] = RatMul(@, scale_y),
                            ![6] = RatMul(@, scale_y)]
        /\ width_' = new_width
        /\ height_' = new_height
        /\ UNCHANGED <<R_, T_, last_row_, aborted>>

\* Rescale(const float factor).
RescaleUniform(factor) == Rescale(factor, factor)

\* Downsize with strict comparisons in the early return.
DownsizeStrict(max_width, max_height) ==
    IF width_ < max_width /\ height_ < max_height
    THEN UNCHANGED <<width_, height_, K_, R_, T_, last_row_, bitmap_, aborted>>
    ELSE LET factor_x == RatDiv(ToFloat(D(max_width)), ToFloat(D(width_)))
             factor_y == RatDiv(ToFloat(D(max_height)), ToFloat(D(height_)))
         IN  RescaleUniform(FloatMin(factor_x, factor_y))

\* Downsize with the larger of the two factors.
DownsizeLargerFactor(max_width, max_height) ==
    IF width_ <= max_width /\ height_ <= max_height
    THEN UNCHANGED <<width_, height_, K_, R_, T_, last_row_, bitmap_, aborted>>
    ELSE LET factor_x == RatDiv(ToFloat(D(max_width)), ToFloat(D(width_)))
             factor_y == RatDiv(ToFloat(D(max_height)), ToFloat(D(height_)))
         IN  RescaleUniform(IF RatLess(factor_x, factor_y) THEN factor_y ELSE factor_x)

Downsize(max_width, max_height) ==
    IF width_ <= max_width /\ height_ <= max_height
    THEN UNCHANGED <<width_, height_, K_, R_, T_, last_row_, bitmap_, aborted>>
    ELSE LET factor_x == RatDiv(ToFloat(D(max_width)), ToFloat(D(width_)))
             factor_y == RatDiv(ToFloat(D(max_height)), ToFloat(D(height_)))
         IN  RescaleUniform(FloatMin(factor_x, factor_y))

----------------------------------------------------------------------------
(* Inputs and bounds.                                                      *)

\* Mutating calls made on one Image.
MaxSteps == 2

\* Largest bound passed to Downsize.
MaxBound == 3

\* Rotation counts passed to Rotate90Multi lie in -MaxCnt..MaxCnt.
MaxCnt == 4

\* (width, height) of the constructed image.
Dims == {<<1, 1>>, <<2, 3>>, <<4, 2>>}

\* Intrinsics: a pinhole matrix, and one whose entries 1, 3, 6, 7, 8 are
\* not those of a pinhole matrix.
KPinhole == IntsToDoubles(<<2, 0, 1, 0, 3, 1, 0, 0, 1>>)

KSkewed == IntsToDoubles(<<3, 1, 2, 1, 2, 1, 1, 0, 2>>)

Ks == {KPinhole, KSkewed}

\* Rotations: the identity, two proper rotations, and a matrix that is not
\* orthonormal.
RIdentity == IntsToDoubles(<<1, 0, 0, 0, 1, 0, 0, 0, 1>>)

RQuarter == IntsToDoubles(<<0, -1, 0, 1, 0, 0, 0, 0, 1>>)

RHalfTurn == IntsToDoubles(<<1, 0, 0, 0, -1, 0, 0, 0, -1>>)

RSheared == IntsToDoubles(<<1, 1, 0, 0, 1, 0, 0, 0, 2>>)

\* The cameras constructed: (K, R, T).
Cameras ==
    {<<KPinhole, RIdentity, IntsToDoubles(<<0, 0, 0>>)>>,
     <<KPinhole, RQuarter, IntsToDoubles(<<1, -2, 1>>)>>,
     <<KPinhole, RHalfTurn, IntsToDoubles(<<0, 1, -3>>)>>,
     <<KSkewed, RIdentity, IntsToDoubles(<<1, -2, 1>>)>>,
     <<KSkewed, RSheared, IntsToDoubles(<<0, 1, -3>>)>>}

\* Last rows: the canonical one, and the depth row (0, 0, 1, 0).
LastRows == {IntsToDoubles(<<0, 0, 0, 1>>), IntsToDoubles(<<0, 0, 1, 0>>)}

\* Factors passed to Rescale: 0.5, 2.0, 0.75, each exact in single precision.
Factors == {Mk(1, 2), D(2), Mk(3, 4)}

\* (factor_x, factor_y) passed to the two-factor Rescale.
FactorPairs == {<<Mk(1, 2), D(2)>>, <<Mk(3, 4), Mk(1, 2)>>, <<D(2), Mk(3, 4)>>}

\* Bitmaps offered to SetBitmap: an empty one, one that fits, one that does not.
Bitmaps ==
    {EmptyBitmap, FilledBitmap(width_, height_), FilledBitmap(width_ + 1, height_)}

\* World points passed to GetDepth besides the camera's own centre.
Points == {IntsToDoubles(<<0, 0, 1>>), IntsToDoubles(<<1, 2, 3>>)}

----------------------------------------------------------------------------
(* The state machine.  call is the last mutating call with its arguments   *)
(* and the fields before it, prev the one before; out is the result of the *)
(* last read-only query since then.                                        *)

Fields ==
    [width |-> width_, height |-> height_, K |-> K_, R |-> R_, T |-> T_,
     last_row |-> last_row_, bitmap |-> bitmap_]

NoCall == [op |-> "none"]

NoOut == [op |-> "none"]

\* Image::Image: the fields copied from the arguments; last_row_ is left
\* uninitialised (any value), bitmap_ is default-constructed.
Init ==
    /\ \E wh \in Dims : width_ = wh[1] /\ height_ = wh[2]
    /\ \E cam \in Cameras : K_ = cam[1] /\ R_ = cam[2] /\ T_ = cam[3]
    /\ last_row_ \in LastRows
    /\ bitmap_ = EmptyBitmap
    /\ aborted = FALSE
    /\ steps = 0
    /\ call = NoCall
    /\ prev = NoCall
    /\ out = NoOut

Mutating(op, args) ==
    /\ ~aborted
    /\ steps < MaxSteps
    /\ steps' = steps + 1
    /\ prev' = call
    /\ call' = [op |-> op, args |-> args, pre |-> Fields]
    /\ out' = NoOut

Query(result) ==
    /\ ~aborted
    /\ out' = result
    /\ UNCHANGED <<width_, height_, K_, R_, T_, last_row_, bitmap_,
                   aborted, steps, call, prev>>

CallSetBitmap ==
    \E bitmap \in Bitmaps :
        Mutating("SetBitmap", <<bitmap>>) /\ SetBitmap(bitmap)

CallSetK ==
    \E K \in Ks : Mutating("SetK", <<K>>) /\ SetK(K)

CallSetLastRow ==
    \E last_row \in LastRows :
        Mutating("SetLastRow", <<last_row>>) /\ SetLastRow(last_row)

CallRescaleUniform ==
    \E factor \in Factors :
        Mutating("RescaleUniform", <<factor>>) /\ RescaleUniform(factor)

CallRescale ==
    \E factors \in FactorPairs :
        Mutating("Rescale", factors) /\ Rescale(factors[1], factors[2])

CallDownsize ==
    \E max_width \in 1..MaxBound, max_height \in 1..MaxBound :
        Mutating("Downsize", <<max_width, max_height>>)
        /\ Downsize(max_width, max_height)

CallGetDepth ==
    \E X \in Points \cup {GetCDouble} :
        Query([op |-> "GetDepth", X |-> X, depth |-> GetDepth(X[1], X[2], X[3])])

CallGetCDouble == Query([op |-> "GetCDouble", C |-> GetCDouble])

CallGetPinvPDouble ==
    Query([op |-> "GetPinvPDouble", res |-> GetPinvPDouble])

CallRotate90Multi ==
    \E cnt \in (-MaxCnt)..MaxCnt :
        Query([op |-> "Rotate90Multi", cnt |-> cnt, res |-> Rotate90Multi(cnt)])

Next ==
    \/ CallSetBitmap
    \/ CallSetK
    \/ CallSetLastRow
    \/ CallRescaleUniform
    \/ CallRescale
    \/ CallDownsize

Spec == Init /\ [][Next]_vars

QueryNext ==
    \/ CallGetDepth
    \/ CallGetCDouble
    \/ CallGetPinvPDouble
    \/ CallRotate90Multi

QuerySpec == Init /\ [][QueryNext]_vars

----------------------------------------------------------------------------
(* Properties of the read-only derivations, checked under QuerySpec.       *)

Identity3 == IntsToDoubles(<<1, 0, 0, 0, 1, 0, 0, 0, 1>>)

Orthonormal(R) == MatMul(R, Transpose3(R), 3, 3, 3) = Identity3

\* The stored camera's position -R^T T, written out by components.
StoredCentre ==
    [i \in 1..3 |->
        RatNeg(RatAdd(RatAdd(RatMul(R_[i], T_[1]), RatMul(R_[3 + i], T_[2])),
                      RatMul(R_[6 + i], T_[3])))]

\* The fourth homogeneous component last_row . (X, 1) of the unscaled P * (X, 1).
FourthComponent(X) ==
    RatAdd(RatAdd(RatAdd(RatMul(last_row_[1], X[1]), RatMul(last_row_[2], X[2])),
                  RatMul(last_row_[3], X[3])),
           last_row_[4])

StackedInvertible ==
    LET det == Det4(Stack4by4(K_, R_, T_, last_row_))
    IN  IsFinite(det) /\ det # D(0)

\* C2: whenever the stacked 4x4 matrix is invertible, the P and the inv_P that
\* Compute4by4ProjectionMatrix returns each have largest absolute entry 10.
\* The source divides by the largest signed entry instead, so this fails as
\* soon as the entry of largest magnitude is negative.
C2_MaxAbsIsTen ==
    (out.op = "GetPinvPDouble" /\ StackedInvertible)
        => /\ MaxAbsCoeff(out.res.P) = D(Ten)
           /\ MaxAbsCoeff(out.res.inv_P) = D(Ten)

\* C3: for every integer cnt, Rotate90Multi selects one of the four cases and
\* writes its six outputs.  The C++ remainder of a negative cnt is negative,
\* so cnt = -1, -2, -3 fall to the default branch and nothing is written.
C3_AlwaysWritten ==
    out.op = "Rotate90Multi" => out.res.written

\* C4: for cnt = 1, 2, 3 the K that Rotate90Multi returns has
\*   cnt = 1: fx' = fy, cx' = cy,              fy' = fx, cy' = -cx + width - 1
\*   cnt = 2: fx' = fx, cx' = -cx + width - 1, fy' = fy, cy' = -cy + height - 1
\*   cnt = 3: fx' = fy, cx' = -cy + height - 1, fy' = fx, cy' = cx
\* with K'[8] = 1 and every other entry 0, whatever else the stored K holds.
C4_RemappedIntrinsics ==
    (out.op = "Rotate90Multi" /\ out.cnt \in 1..3) =>
        LET fx == K_[1]
            cx == K_[3]
            fy == K_[5]
            cy == K_[6]
            flipx == RatSub(RatAdd(RatNeg(cx), D(width_)), D(1))
            flipy == RatSub(RatAdd(RatNeg(cy), D(height_)), D(1))
            Kn == out.res.K
        IN  /\ out.res.written
            /\ Len(Kn) = 9
            /\ Kn[2] = D(0) /\ Kn[4] = D(0) /\ Kn[7] = D(0) /\ Kn[8] = D(0)
            /\ Kn[9] = D(1)
            /\ out.cnt = 1 => Kn[1] = fy /\ Kn[3] = cy /\ Kn[5] = fx /\ Kn[6] = flipx
            /\ out.cnt = 2 => Kn[1] = fx /\ Kn[3] = flipx /\ Kn[5] = fy /\ Kn[6] = flipy
            /\ out.cnt = 3 => Kn[1] = fy /\ Kn[3] = flipy /\ Kn[5] = fx /\ Kn[6] = cx

\* A 270-degree remap of a camera whose K is not a pinhole matrix and whose
\* width and height differ.
C4_Witness ==
    /\ out.op = "Rotate90Multi" /\ out.cnt = 3 /\ out.res.written
    /\ K_ = KSkewed /\ width_ # height_

\* C5 as stated: for orthonormal R and every last row, GetDepth at the
\* camera's own centre C = -R^T T has a zero fourth homogeneous component and
\* returns a non-finite depth.
C5_DepthAtCentreNonFinite ==
    (out.op = "GetDepth" /\ out.X = StoredCentre /\ Orthonormal(R_))
        => FourthComponent(out.X) = D(0) /\ ~IsFinite(out.depth)

\* C5 amended: for orthonormal R, GetDepth at the camera's own centre divides
\* a zero third component by the fourth component last_row . (C, 1): the
\* depth is non-finite (NaN) exactly when that fourth component is zero, and
\* is the finite value 0 for every other last row.
C5_DepthAtCentre ==
    (out.op = "GetDepth" /\ out.X = StoredCentre /\ Orthonormal(R_))
        => out.depth = IF FourthComponent(out.X) = D(0) THEN NaN ELSE D(0)

\* GetDepth at the centre of an orthonormal camera returned the finite depth 0.
C5_Witness ==
    /\ out.op = "GetDepth" /\ out.X = StoredCentre /\ Orthonormal(R_)
    /\ FourthComponent(out.X) # D(0) /\ out.depth = D(0)

\* C9: for every stored R and T, orthonormal or not, and every cnt that
\* selects a case, the centre Rotate90Multi recomputes from the rotated
\* R', T' equals the stored camera's centre -R^T T.
C9_CentreUnmoved ==
    (out.op = "Rotate90Multi" /\ out.cnt \in 0..3)
        => out.res.written /\ out.res.C = StoredCentre

\* A rotated remap of a camera whose R is not orthonormal and whose centre is
\* not the origin.
C9_Witness ==
    /\ out.op = "Rotate90Multi" /\ out.cnt = 1 /\ out.res.written
    /\ ~Orthonormal(R_) /\ StoredCentre # IntsToDoubles(<<0, 0, 0>>)

----------------------------------------------------------------------------
(* Properties of the mutators, checked under Spec.                         *)

\* The factors of the last call, when it was one of the two Rescale overloads.
IsRescaleCall(c) == c.op = "Rescale" \/ c.op = "RescaleUniform"

FactorX(c) == c.args[1]

FactorY(c) == IF c.op = "Rescale" THEN c.args[2] ELSE c.args[1]

\* round(n * f) for an integer n >= 0 and a factor f > 0, half away from zero.
RoundedProduct(n, f) == (2 * n * f.n + f.d) \div (2 * f.d)

Fits(c) == c.pre.width <= c.args[1] /\ c.pre.height <= c.args[2]

\* C1: as long as no call has aborted, whenever pixel data is attached the
\* stored width and height are the buffer's width and height.
C1_DimensionsMatchBuffer ==
    (~aborted /\ bitmap_.data) => (width_ = bitmap_.w /\ height_ = bitmap_.h)

\* A call rescaled an attached buffer and changed the width.
C1_Witness ==
    /\ ~aborted /\ bitmap_.data /\ bitmap_.rescaled > 0
    /\ call.op \in {"Rescale", "RescaleUniform", "Downsize"}
    /\ width_ # call.pre.width

\* C6: Downsize(maxW, maxH) with width <= maxW and height <= maxH leaves
\* width, height, K and the buffer as they were and does not call the
\* buffer's Rescale.
C6_DownsizeNoOp ==
    (call.op = "Downsize" /\ Fits(call)) =>
        /\ width_ = call.pre.width
        /\ height_ = call.pre.height
        /\ K_ = call.pre.K
        /\ bitmap_ = call.pre.bitmap
        /\ bitmap_.rescaled = call.pre.bitmap.rescaled

\* Downsize within the bounds, on an image with an attached buffer whose
\* width is exactly the bound.
C6_Witness ==
    /\ call.op = "Downsize" /\ Fits(call) /\ ~aborted
    /\ call.pre.bitmap.data /\ call.pre.width = call.args[1]

\* C7: Rescale(2.0) followed by Rescale(0.5) on a camera with width >= 1 and
\* height >= 1 leaves width and height within one pixel of their values
\* before the two calls, and the focal lengths K[0] and K[4] equal to theirs.
C7_RescaleRoundTrip ==
    (/\ call.op = "RescaleUniform" /\ call.args = <<Mk(1, 2)>>
     /\ prev.op = "RescaleUniform" /\ prev.args = <<D(2)>>
     /\ prev.pre.width >= 1 /\ prev.pre.height >= 1) =>
        /\ Abs(width_ - prev.pre.width) <= 1
        /\ Abs(height_ - prev.pre.height) <= 1
        /\ K_[1] = prev.pre.K[1]
        /\ K_[5] = prev.pre.K[5]

\* The two calls were made on a camera with an odd dimension.
C7_Witness ==
    /\ call.op = "RescaleUniform" /\ call.args = <<Mk(1, 2)>>
    /\ prev.op = "RescaleUniform" /\ prev.args = <<D(2)>>
    /\ prev.pre.width >= 1 /\ prev.pre.height % 2 = 1
    /\ call.pre.width = 2 * prev.pre.width

\* C8: Rescale(fx, fy) on a camera with W >= 1 and H >= 1 sets width to
\* W' = round(W * fx) and height to H' = round(H * fy), multiplies K[0], K[2]
\* by W'/W and K[4], K[5] by H'/H, rescales the buffer to W' x H' only if one
\* is attached, and leaves the other entries of K, R, T and the last row.
C8_RescaleEffect ==
    (IsRescaleCall(call) /\ call.pre.width >= 1 /\ call.pre.height >= 1) =>
        LET W  == call.pre.width
            H  == call.pre.height
            Wn == RoundedProduct(W, FactorX(call))
            Hn == RoundedProduct(H, FactorY(call))
            K0 == call.pre.K
        IN  /\ width_ = Wn
            /\ height_ = Hn
            /\ K_[1] = RatMul(K0[1], Mk(Wn, W))
            /\ K_[3] = RatMul(K0[3], Mk(Wn, W))
            /\ K_[5] = RatMul(K0[5], Mk(Hn, H))
            /\ K_[6] = RatMul(K0[6], Mk(Hn, H))
            /\ \A i \in {2, 4, 7, 8, 9} : K_[i] = K0[i]
            /\ R_ = call.pre.R /\ T_ = call.pre.T /\ last_row_ = call.pre.last_row
            /\ bitmap_ = IF call.pre.bitmap.data
                         THEN [data |-> TRUE, w |-> Wn, h |-> Hn,
                               rescaled |-> call.pre.bitmap.rescaled + 1]
                         ELSE call.pre.bitmap

\* A Rescale of an image with an attached buffer whose realised horizontal
\* factor W'/W is not the requested one.
C8_Witness ==
    /\ call.op = "Rescale" /\ call.pre.width >= 1 /\ call.pre.height >= 1
    /\ call.pre.bitmap.data /\ ~aborted
    /\ width_ * FactorX(call).d # call.pre.width * FactorX(call).n

\* C10: after Downsize(maxW, maxH) with maxW, maxH >= 1 on a camera with
\* width >= 1 and height >= 1, the stored width is at most maxW and the
\* stored height at most maxH.
C10_DownsizeWithinBounds ==
    (/\ call.op = "Downsize" /\ call.pre.width >= 1 /\ call.pre.height >= 1
     /\ call.args[1] >= 1 /\ call.args[2] >= 1) =>
        (width_ <= call.args[1] /\ height_ <= call.args[2])

\* Downsize shrank an image by the smaller factor and the other dimension
\* was rounded: the aspect ratio is no longer exact.
C10_Witness ==
    /\ call.op = "Downsize" /\ ~Fits(call)
    /\ call.pre.width >= 1 /\ call.pre.height >= 1 /\ width_ >= 1
    /\ width_ * call.pre.height # height_ * call.pre.width

====
